---------------------------- MODULE Spec2Model ----------------------------
(***************************************************************************)
(* A model of BrowserForensics.py: the two timestamp conversions, the      *)
(* schema detection, the Chromium and Firefox extractors and the           *)
(* export_history run over a small file system.                            *)
(*                                                                         *)
(* Python values are tuples that start with a tag, the tag fixing the      *)
(* shape:                                                                  *)
(*   <<"none">>                 None / SQL NULL                            *)
(*   <<"int", d, s, u>>         the integer ((d*86400)+s)*10^6+u, with     *)
(*                              0 <= s < 86400 and 0 <= u < 10^6 (a        *)
(*                              64-bit microsecond count does not fit      *)
(*                              TLC's 32-bit integers, so it is kept in    *)
(*                              the mixed radix days/seconds/microseconds) *)
(*   <<"bool", b>>              a JSON true/false                          *)
(*   <<"nan">>                  the float NaN (JSON accepts it)            *)
(*   <<"text", toks>>           a str, as the sequence of its pieces       *)
(*   <<"badtext">>              a TEXT cell that is not valid UTF-8        *)
(*   <<"blob", toks>>           a bytes object                             *)
(*   <<"list", n>>              a JSON array of n elements                 *)
(*   <<"dict", size, start>>    a JSON object, by its fileSize and         *)
(*                              startTime members (<<"missing">> if none)  *)
(*   <<"fmt", m, d, Y, I, M, S, p>>  the str strftime builds               *)
(***************************************************************************)
EXTENDS Integers, Sequences, FiniteSets, TLC

VARIABLES
    fn,         \* unit call: the function called ("" outside a unit call)
    arg,        \* unit call: its argument
    ret,        \* unit call: what it returned, Pending before the call
    dir,        \* the working directory: path -> inode number, 0 if absent
    ino,        \* inode number -> contents
    fs0,        \* the directory and the inodes as they were before any run
    pc,         \* per run: the position in export_history
    db_path,    \* per run: first argument
    output_csv, \* per run: second argument
    src,        \* per run: inode open for reading (0: none)
    dst,        \* per run: inode open for writing (0: none)
    conn,       \* per run: inode the sqlite connection is on (0: none)
    connState,  \* per run: "none", "open", "closed"
    browser_type, \* per run: what detect_browser returned
    results,    \* per run: what the extractor returned
    printed,    \* per run: the messages printed, in order
    raised      \* per run: the exception that ended the run ("" if none)

unitVars == <<fn, arg, ret>>
fsVars == <<dir, ino, fs0>>
runVars == <<pc, db_path, output_csv, src, dst, conn, connState,
             browser_type, results, printed, raised>>
vars == <<fn, arg, ret, dir, ino, fs0, pc, db_path, output_csv, src, dst,
          conn, connState, browser_type, results, printed, raised>>

-----------------------------------------------------------------------------
(* Values *)

None == <<"none">>
Missing == <<"missing">>
\* A unit call before and after it returned.
Pending == [done |-> FALSE, val |-> <<"none">>]
Return(v) == [done |-> TRUE, val |-> v]
Raise == <<"raise">>
EmptyStr == <<"text", <<>>>>
IntV(d, s, u) == <<"int", d, s, u>>
Small(n) == <<"int", 0, 0, n>>
Text(toks) == <<"text", toks>>
Blob(toks) == <<"blob", toks>>

Tag(v) == v[1]

\* Python truthiness: `if chrome_time:`, `if meta_json:`, `x or y`.
Truthy(v) ==
    CASE Tag(v) = "none" -> FALSE
      [] Tag(v) = "int" -> ~(v[2] = 0 /\ v[3] = 0 /\ v[4] = 0)
      [] Tag(v) = "bool" -> v[2]
      [] Tag(v) = "text" -> Len(v[2]) > 0
      [] Tag(v) = "blob" -> Len(v[2]) > 0
      [] Tag(v) = "list" -> v[2] > 0
      [] Tag(v) = "dict" -> ~(v[2] = Missing /\ v[3] = Missing)
      [] OTHER -> TRUE

-----------------------------------------------------------------------------
(* Timestamp conversion: src/BrowserForensics.py lines 8-35 *)

SecondsPerDay == 86400
\* BROWSER_TIME_OFFSET_MICROSECONDS = 11644473600000000 us
\*   = 134774 days * 86400 s * 10^6: 1601-01-01 to 1970-01-01.
BrowserTimeOffsetDays == 134774
FIREFOX_TIME_DIVISOR == 1000000
\* datetime.utcfromtimestamp accepts 0001-01-01 .. 9999-12-31, as days from 1970.
MinDay == -719162
MaxDay == 2932896

\* The operand of the arithmetic as <<d, s, u>>, or Raise (TypeError) when
\* the value is no number: str, bytes, list, dict.
AsNumber(v) ==
    CASE Tag(v) = "int" -> <<v[2], v[3], v[4]>>
      [] Tag(v) = "bool" -> <<0, 0, IF v[2] THEN 1 ELSE 0>>
      [] Tag(v) = "nan" -> <<"nan">>
      [] OTHER -> Raise

\* The proleptic Gregorian date <<year, month, day>> of day number z since
\* 1970-01-01 (what datetime computes from the ordinal).
CivilFromDays(z0) ==
    LET z == z0 + 719468
        era == z \div 146097
        doe == z - era * 146097
        yoe == (doe - doe \div 1460 + doe \div 36524 - doe \div 146096) \div 365
        doy == doe - (365 * yoe + yoe \div 4 - yoe \div 100)
        mp == (5 * doy + 2) \div 153
        d == doy - (153 * mp + 2) \div 5 + 1
        m == IF mp < 10 THEN mp + 3 ELSE mp - 9
        y == yoe + era * 400 + (IF m <= 2 THEN 1 ELSE 0)
    IN <<y, m, d>>

\* datetime.utcfromtimestamp(seconds) with seconds = n / 10^6: ValueError,
\* OverflowError or OSError (here Raise) outside the years 1..9999 and for NaN.
UtcFromTimestamp(n) ==
    IF n = Raise \/ n = <<"nan">> THEN Raise
    ELSE IF n[1] < MinDay \/ n[1] > MaxDay THEN Raise
    ELSE <<"datetime", CivilFromDays(n[1]), n[2]>>

\* dt.strftime("%-m/%-d/%Y  %-I:%M:%S %p UTC")
Strftime(dt) ==
    IF dt = Raise THEN Raise
    ELSE LET ymd == dt[2]
             hour == dt[3] \div 3600
             h12 == IF hour % 12 = 0 THEN 12 ELSE hour % 12
         IN <<"fmt", ymd[2], ymd[3], ymd[1], h12, (dt[3] \div 60) % 60,
              dt[3] % 60, IF hour < 12 THEN "AM" ELSE "PM">>

\* `except Exception: return None`
CatchNone(r) == IF r = Raise THEN None ELSE r

ChromeArith(v) ==
    LET n == AsNumber(v)
    IN IF n = Raise \/ n = <<"nan">> THEN n
       ELSE <<n[1] - BrowserTimeOffsetDays, n[2], n[3]>>

\* chrome_time_to_datetime without its try/except.
chrome_time_unguarded(chrome_time) ==
    IF Truthy(chrome_time)
    THEN Strftime(UtcFromTimestamp(ChromeArith(chrome_time)))
    ELSE None

chrome_time_to_datetime(chrome_time) ==
    IF Truthy(chrome_time)
    THEN CatchNone(Strftime(UtcFromTimestamp(ChromeArith(chrome_time))))
    ELSE None

firefox_time_to_datetime(firefox_time) ==
    IF Truthy(firefox_time)
    THEN CatchNone(Strftime(UtcFromTimestamp(AsNumber(firefox_time))))
    ELSE None

-----------------------------------------------------------------------------
(* The normalized record: a dict literal, as its items in insertion order *)

FieldNames == <<"Type", "URL", "Title", "Visit Count", "Last Visit (UTC)",
                "Visit Time (UTC)", "Download Path", "Download Size (bytes)",
                "Referrer">>

Keys(rec) == [i \in 1..Len(rec) |-> rec[i][1]]
HasKey(rec, k) == \E i \in 1..Len(rec) : rec[i][1] = k
Get(rec, k) == rec[CHOOSE i \in 1..Len(rec) : rec[i][1] = k][2]
TypeOf(rec) == Get(rec, "Type")
Visit == Text(<<"Visit">>)
Download == Text(<<"Download">>)

\* lines 64-74: row = <<url, title, visit_count, last_visit, visit_time>>
ChromiumVisitRecord(row) ==
    << <<"Type", Visit>>, <<"URL", row[1]>>, <<"Title", row[2]>>,
       <<"Visit Count", row[3]>>,
       <<"Last Visit (UTC)", chrome_time_to_datetime(row[4])>>,
       <<"Visit Time (UTC)", chrome_time_to_datetime(row[5])>>,
       <<"Download Path", EmptyStr>>, <<"Download Size (bytes)", EmptyStr>>,
       <<"Referrer", EmptyStr>> >>

\* lines 85-95: row = <<current_path, target_path, start_time, total_bytes,
\*                      tab_url, tab_referrer_url>>
ChromiumDownloadRecord(row) ==
    << <<"Type", Download>>, <<"URL", row[5]>>, <<"Title", EmptyStr>>,
       <<"Visit Count", EmptyStr>>, <<"Last Visit (UTC)", EmptyStr>>,
       <<"Visit Time (UTC)", chrome_time_to_datetime(row[3])>>,
       <<"Download Path", IF Truthy(row[2]) THEN row[2] ELSE row[1]>>,
       <<"Download Size (bytes)", row[4]>>, <<"Referrer", row[6]>> >>

\* lines 115-125: row = <<url, title, visit_count, last_visit, visit_time>>
FirefoxVisitRecord(row) ==
    << <<"Type", Visit>>, <<"URL", row[1]>>, <<"Title", row[2]>>,
       <<"Visit Count", row[3]>>,
       <<"Last Visit (UTC)", firefox_time_to_datetime(row[4])>>,
       <<"Visit Time (UTC)", firefox_time_to_datetime(row[5])>>,
       <<"Download Path", EmptyStr>>, <<"Download Size (bytes)", EmptyStr>>,
       <<"Referrer", EmptyStr>> >>

\* lines 133-143: row = <<target, startTime, totalBytes, source>>
FirefoxLegacyRecord(row) ==
    << <<"Type", Download>>, <<"URL", row[4]>>, <<"Title", EmptyStr>>,
       <<"Visit Count", EmptyStr>>, <<"Last Visit (UTC)", EmptyStr>>,
       <<"Visit Time (UTC)", firefox_time_to_datetime(row[2])>>,
       <<"Download Path", row[1]>>, <<"Download Size (bytes)", row[3]>>,
       <<"Referrer", EmptyStr>> >>

\* json.loads on the documents the model's artifacts hold; anything else is
\* not JSON (json.JSONDecodeError, here Raise).
JsonLoads(toks) ==
    CASE toks = <<"{\"fileSize\": 2048, \"startTime\": 1690000000000000}">>
            -> <<"dict", Small(2048), IntV(19560, 16000, 0)>>
      [] toks = <<"{\"fileSize\": 2048, \"startTime\": \"soon\"}">>
            -> <<"dict", Small(2048), Text(<<"soon">>)>>
      [] toks = <<"{\"startTime\": 0}">> -> <<"dict", Missing, Small(0)>>
      [] toks = <<"{}">> -> <<"dict", Missing, Missing>>
      [] toks = <<"[1]">> -> <<"list", 1>>
      [] OTHER -> Raise

\* lines 163-171: <<total_bytes, start_time>> recovered from meta_json. Any
\* exception of json.loads or of meta.get (a document that is no mapping has
\* no get) leaves both at "".
MetaFields(meta_json) ==
    IF ~Truthy(meta_json) THEN <<EmptyStr, EmptyStr>>
    ELSE LET meta == IF Tag(meta_json) \in {"text", "blob"}
                     THEN JsonLoads(meta_json[2]) ELSE Raise
         IN IF meta = Raise \/ Tag(meta) # "dict" THEN <<EmptyStr, EmptyStr>>
            ELSE << IF meta[2] = Missing THEN EmptyStr ELSE meta[2],
                    IF meta[3] = Missing THEN Small(0) ELSE meta[3] >>

\* line 180: target_path.replace("file://", "") if target_path else "".
\* Only str has a replace that takes str arguments: bytes raises TypeError,
\* an int AttributeError (here Raise).
StripFileUri(target_path) ==
    IF ~Truthy(target_path) THEN EmptyStr
    ELSE IF Tag(target_path) = "text"
         THEN Text(SelectSeq(target_path[2], LAMBDA t : t # "file://"))
         ELSE Raise

\* The modern record built without its last item.
FirefoxModernRecordNoReferrer(row) ==
    LET mf == MetaFields(row[3])
        path == StripFileUri(row[2])
    IN IF path = Raise THEN Raise
       ELSE << <<"Type", Download>>, <<"URL", row[1]>>, <<"Title", EmptyStr>>,
               <<"Visit Count", EmptyStr>>, <<"Last Visit (UTC)", EmptyStr>>,
               <<"Visit Time (UTC)",
                 IF Truthy(mf[2]) THEN firefox_time_to_datetime(mf[2])
                 ELSE EmptyStr>>,
               <<"Download Path", path>>, <<"Download Size (bytes)", mf[1]>> >>

\* lines 162-183: row = <<source_url, target_path, meta_json>>; Raise when
\* building the record raises.
FirefoxModernRecord(row) ==
    LET mf == MetaFields(row[3])
        path == StripFileUri(row[2])
    IN IF path = Raise THEN Raise
       ELSE << <<"Type", Download>>, <<"URL", row[1]>>, <<"Title", EmptyStr>>,
               <<"Visit Count", EmptyStr>>, <<"Last Visit (UTC)", EmptyStr>>,
               <<"Visit Time (UTC)",
                 IF Truthy(mf[2]) THEN firefox_time_to_datetime(mf[2])
                 ELSE EmptyStr>>,
               <<"Download Path", path>>, <<"Download Size (bytes)", mf[1]>>,
               <<"Referrer", EmptyStr>> >>

-----------------------------------------------------------------------------
(* The artifact: an SQLite database, by its tables.                        *)
(*   tables   the names sqlite_master lists                                *)
(*   badcols  the tables among them that lack a column the queries name    *)
(*   urls               <<id, url, title, visit_count, last_visit_time>>   *)
(*   visits             <<url, visit_time>>                                *)
(*   downloads          <<current_path, target_path, start_time,           *)
(*                        total_bytes, tab_url, tab_referrer_url>>         *)
(*   moz_places         <<id, url, title, visit_count, last_visit_date>>   *)
(*   moz_historyvisits  <<place_id, visit_date>>                           *)
(*   moz_downloads      <<target, startTime, totalBytes, source>>          *)
(*   moz_annos          <<place_id, anno_attribute_id, content>>           *)
(*   moz_anno_attributes <<id, name>>                                      *)

EmptyDb ==
    [tables |-> {}, badcols |-> {}, urls |-> <<>>, visits |-> <<>>,
     downloads |-> <<>>, moz_places |-> <<>>, moz_historyvisits |-> <<>>,
     moz_downloads |-> <<>>, moz_annos |-> <<>>, moz_anno_attributes |-> <<>>]

\* cursor.execute(query): sqlite3.OperationalError when a table the query
\* names is missing ("no such table") or lacks a column ("no such column").
QueryPrepares(db, needed) == needed \subseteq (db.tables \ db.badcols)

\* The cell cannot be handed to Python: sqlite3.OperationalError ("Could not
\* decode to UTF-8 column") when the row is fetched.
RowDecodes(row) == \A i \in 1..Len(row) : Tag(row[i]) # "badtext"

\* SQL `a = b` in a join condition: never true of NULL.
SqlEq(a, b) == Tag(a) # "none" /\ a = b

\* SQLite's order of values: NULL, then numbers, then text, then blobs; the
\* model orders numbers and leaves the order inside the other classes open.
SqlRank(v) ==
    CASE Tag(v) = "none" -> 0
      [] Tag(v) \in {"int", "bool"} -> 1
      [] Tag(v) \in {"text", "badtext"} -> 2
      [] OTHER -> 3
NumLeq(a, b) ==
    \/ a[2] < b[2]
    \/ a[2] = b[2] /\ a[3] < b[3]
    \/ a[2] = b[2] /\ a[3] = b[3] /\ a[4] <= b[4]
SqlLeq(a, b) ==
    \/ SqlRank(a) < SqlRank(b)
    \/ SqlRank(a) = SqlRank(b) /\ (Tag(a) = "int" /\ Tag(b) = "int" => NumLeq(a, b))

\* The enumerations of set S (each element once).
Enumerations(S) ==
    {f \in [1..Cardinality(S) -> S] : \A i, j \in 1..Cardinality(S) : f[i] = f[j] => i = j}

\* The index pairs <<i, j>> the history join of tables a, b (a[i].id =
\* b[j][1]) selects.
JoinPairs(a, b) ==
    {p \in (1..Len(a)) \X (1..Len(b)) : SqlEq(a[p[1]][1], b[p[2]][1])}

\* ORDER BY <b's time column> DESC: every order of the joined rows in which
\* the time never increases; SQL leaves the order of equal times open.
HistoryOrders(a, b) ==
    {f \in Enumerations(JoinPairs(a, b)) :
        \A k, l \in 1..Len(f) : k < l => SqlLeq(b[f[l][2]][2], b[f[k][2]][2])}

\* The rows of the history query in the order f.
HistoryRows(a, b, f) ==
    [k \in 1..Len(f) |->
        <<a[f[k][1]][2], a[f[k][1]][3], a[f[k][1]][4], a[f[k][1]][5], b[f[k][2]][2]>>]

\* `for ... in cursor.execute(q): results.append(...)`: the rows are fetched
\* one at a time; recs[k] is the record row k builds (Raise if building it
\* raises). Ends at the first row that cannot be fetched (sqlite3.Error,
\* caught by the pass) or whose record cannot be built (not caught).
RECURSIVE FetchLoop(_, _, _, _)
FetchLoop(rows, recs, k, acc) ==
    IF k > Len(rows) THEN [recs |-> acc, err |-> "ok"]
    ELSE IF ~RowDecodes(rows[k]) THEN [recs |-> acc, err |-> "sqlite"]
    ELSE IF recs[k] = Raise THEN [recs |-> acc, err |-> "raise"]
    ELSE FetchLoop(rows, recs, k + 1, Append(acc, recs[k]))

NoRecords == [recs |-> <<>>, err |-> "sqlite"]

\* lines 56-76
ChromiumHistoryPass(db, f) ==
    IF ~QueryPrepares(db, {"urls", "visits"}) THEN NoRecords
    ELSE LET rows == HistoryRows(db.urls, db.visits, f)
         IN FetchLoop(rows, [k \in 1..Len(rows) |-> ChromiumVisitRecord(rows[k])], 1, <<>>)

\* lines 79-97
ChromiumDownloadsPass(db) ==
    IF ~QueryPrepares(db, {"downloads"}) THEN NoRecords
    ELSE FetchLoop(db.downloads,
                   [k \in 1..Len(db.downloads) |-> ChromiumDownloadRecord(db.downloads[k])],
                   1, <<>>)

\* lines 107-127
FirefoxHistoryPass(db, f) ==
    IF ~QueryPrepares(db, {"moz_places", "moz_historyvisits"}) THEN NoRecords
    ELSE LET rows == HistoryRows(db.moz_places, db.moz_historyvisits, f)
         IN FetchLoop(rows, [k \in 1..Len(rows) |-> FirefoxVisitRecord(rows[k])], 1, <<>>)

\* lines 130-145: cursor.fetchall() fetches every row before the first record
\* is built, so a row that cannot be fetched leaves the pass with none.
FirefoxLegacyPass(db) ==
    IF ~QueryPrepares(db, {"moz_downloads"}) THEN NoRecords
    ELSE IF \E k \in 1..Len(db.moz_downloads) : ~RowDecodes(db.moz_downloads[k])
         THEN NoRecords
         ELSE [recs |-> [k \in 1..Len(db.moz_downloads) |->
                            FirefoxLegacyRecord(db.moz_downloads[k])],
               err |-> "ok"]

DestinationAttr == "downloads/destinationFileURI"
MetaDataAttr == "downloads/metaData"

\* Whether annotation row d carries the attribute called name.
AnnoNamed(db, d, name) ==
    \E t \in 1..Len(db.moz_anno_attributes) :
        /\ SqlEq(d[2], db.moz_anno_attributes[t][1])
        /\ db.moz_anno_attributes[t][2] = Text(<<name>>)

\* lines 149-161: the index triples <<place, file annotation, metadata
\* annotation>> the modern query selects.
ModernTriples(db) ==
    {t \in (1..Len(db.moz_places)) \X (1..Len(db.moz_annos)) \X (1..Len(db.moz_annos)) :
        /\ SqlEq(db.moz_places[t[1]][1], db.moz_annos[t[2]][1])
        /\ SqlEq(db.moz_places[t[1]][1], db.moz_annos[t[3]][1])
        /\ AnnoNamed(db, db.moz_annos[t[2]], DestinationAttr)
        /\ AnnoNamed(db, db.moz_annos[t[3]], MetaDataAttr)}

TripleBefore(s, t) ==
    \/ s[1] < t[1]
    \/ s[1] = t[1] /\ s[2] < t[2]
    \/ s[1] = t[1] /\ s[2] = t[2] /\ s[3] <= t[3]

\* The query has no ORDER BY; the rows come in the order of the nested scan.
ModernRows(db) ==
    LET f == CHOOSE g \in Enumerations(ModernTriples(db)) :
                \A k, l \in 1..Len(g) : k < l => TripleBefore(g[k], g[l])
    IN [k \in 1..Len(f) |->
          <<db.moz_places[f[k][1]][2], db.moz_annos[f[k][2]][3], db.moz_annos[f[k][3]][3]>>]

\* lines 148-185
FirefoxModernPass(db) ==
    IF ~QueryPrepares(db, {"moz_places", "moz_annos", "moz_anno_attributes"})
    THEN NoRecords
    ELSE LET rows == ModernRows(db)
         IN FetchLoop(rows, [k \in 1..Len(rows) |-> FirefoxModernRecord(rows[k])], 1, <<>>)

\* A pass ended by an exception that is no sqlite3.Error ends the extractor:
\* the later passes do not run and nothing is returned.
Returned(rs) == [results |-> rs, raised |-> ""]
Propagated == [results |-> <<>>, raised |-> "TypeError"]

\* lines 51-99; f is the order the history query returned its rows in.
parse_chromium(db, f) ==
    LET h == ChromiumHistoryPass(db, f)
        d == ChromiumDownloadsPass(db)
    IN IF h.err = "raise" \/ d.err = "raise" THEN Propagated
       ELSE Returned(h.recs \o d.recs)

\* parse_firefox with the two download passes in the other order.
parse_firefox_modern_first(db, f) ==
    LET h == FirefoxHistoryPass(db, f)
        l == FirefoxLegacyPass(db)
        m == FirefoxModernPass(db)
    IN IF h.err = "raise" \/ l.err = "raise" \/ m.err = "raise" THEN Propagated
       ELSE Returned(h.recs \o m.recs \o l.recs)

\* lines 102-187
parse_firefox(db, f) ==
    LET h == FirefoxHistoryPass(db, f)
        l == FirefoxLegacyPass(db)
        m == FirefoxModernPass(db)
    IN IF h.err = "raise" \/ l.err = "raise" \/ m.err = "raise" THEN Propagated
       ELSE Returned(h.recs \o l.recs \o m.recs)

\* The orders the history query of layout kind may return its rows in.
ChromiumOrders(db) ==
    IF QueryPrepares(db, {"urls", "visits"})
    THEN HistoryOrders(db.urls, db.visits) ELSE {<<>>}
FirefoxOrders(db) ==
    IF QueryPrepares(db, {"moz_places", "moz_historyvisits"})
    THEN HistoryOrders(db.moz_places, db.moz_historyvisits) ELSE {<<>>}

\* detect_browser with the Firefox rule tried first.
detect_browser_firefox_first(tables) ==
    IF {"moz_places", "moz_historyvisits"} \subseteq tables THEN Text(<<"firefox">>)
    ELSE IF {"urls", "visits"} \subseteq tables THEN Text(<<"chromium">>)
    ELSE None

\* lines 38-48, on the table names the sqlite_master query returned
detect_browser(tables) ==
    IF {"urls", "visits"} \subseteq tables THEN Text(<<"chromium">>)
    ELSE IF {"moz_places", "moz_historyvisits"} \subseteq tables THEN Text(<<"firefox">>)
    ELSE None

-----------------------------------------------------------------------------
(* Inputs *)

\* The longest table an artifact of the model holds.
MaxRows == 2

\* The sequences of at most n elements of S.
SeqsUpTo(S, n) == UNION {[1..k -> S] : k \in 0..n}

\* Day numbers around the edges of both conversions' ranges, and inside.
DaySamples ==
    {MinDay - 1, MinDay, -1, 0, 19560, BrowserTimeOffsetDays - 1,
     BrowserTimeOffsetDays, BrowserTimeOffsetDays + 19560, MaxDay, MaxDay + 1,
     MinDay + BrowserTimeOffsetDays - 1, MinDay + BrowserTimeOffsetDays,
     MaxDay + BrowserTimeOffsetDays, MaxDay + BrowserTimeOffsetDays + 1}
SecondSamples == {0, 1, 43199, 43200, SecondsPerDay - 1}
MicroSamples == {0, FIREFOX_TIME_DIVISOR - 1}

IntInputs == {IntV(d, s, u) : d \in DaySamples, s \in SecondSamples, u \in MicroSamples}
FalsyInputs == {None, Small(0), <<"bool", FALSE>>, EmptyStr, Blob(<<>>), <<"list", 0>>}
NonNumericInputs == {Text(<<"soon">>), Blob(<<"x">>), <<"list", 1>>, <<"nan">>}
TimeInputs == IntInputs \cup FalsyInputs \cup NonNumericInputs \cup {<<"bool", TRUE>>}

TableNames == {"urls", "visits", "downloads", "moz_places", "moz_historyvisits",
               "moz_downloads", "meta"}

\* 2023-07-22 04:26:40 UTC and a day later, in both encodings.
FirefoxTimeA == IntV(19560, 16000, 0)
FirefoxTimeB == IntV(19561, 16000, 0)
ChromeTimeA == IntV(BrowserTimeOffsetDays + 19560, 16000, 0)
ChromeTimeB == IntV(BrowserTimeOffsetDays + 19561, 16000, 0)

UrlA == Text(<<"http://a">>)
UrlB == Text(<<"http://b">>)
BadText == <<"badtext">>

\* The state of the tables one pass reads: missing, lacking a column, or
\* holding rows.
TableStates(rowSeqs) ==
    {[state |-> "absent", rows |-> <<>>], [state |-> "badcols", rows |-> <<>>]}
    \cup {[state |-> "ok", rows |-> r] : r \in rowSeqs}

PresentIf(ts, names) == IF ts.state = "absent" THEN {} ELSE names
BadIf(ts, names) == IF ts.state = "badcols" THEN names ELSE {}

\* Chromium: two URLs, the second with a title that is no UTF-8.
ChromiumUrls ==
    << <<Small(1), UrlA, Text(<<"A">>), Small(3), ChromeTimeB>>,
       <<Small(2), UrlB, BadText, Small(1), None>> >>
ChromiumVisitRows ==
    {<<Small(1), ChromeTimeA>>, <<Small(1), ChromeTimeB>>, <<Small(2), ChromeTimeA>>,
     <<Small(1), None>>}
ChromiumDownloadRows ==
    {<<Text(<<"/tmp/a.crdownload">>), Text(<<"/home/a.zip">>), ChromeTimeA, Small(2048),
       Text(<<"http://a/dl">>), Text(<<"http://ref">>)>>,
     <<Text(<<"/tmp/b.crdownload">>), EmptyStr, Text(<<"soon">>), None, UrlB, None>>,
     <<Text(<<"/tmp/c.crdownload">>), None, Small(0), Small(1), BadText, None>>}

ChromiumDb(h, d) ==
    [EmptyDb EXCEPT
        !.tables = PresentIf(h, {"urls", "visits"}) \cup PresentIf(d, {"downloads"}),
        !.badcols = BadIf(h, {"visits"}) \cup BadIf(d, {"downloads"}),
        !.urls = IF h.state = "absent" THEN <<>> ELSE ChromiumUrls,
        !.visits = h.rows,
        !.downloads = d.rows]

ChromiumDbs ==
    {ChromiumDb(h, d) : h \in TableStates(SeqsUpTo(ChromiumVisitRows, MaxRows)),
                        d \in TableStates(SeqsUpTo(ChromiumDownloadRows, MaxRows))}

\* Firefox: four places, the third with a title that is no UTF-8.
FirefoxPlaces ==
    << <<Small(1), UrlA, Text(<<"A">>), Small(3), FirefoxTimeB>>,
       <<Small(2), UrlB, None, Small(1), Small(0)>>,
       <<Small(3), Text(<<"http://c">>), BadText, Small(1), None>>,
       <<Small(4), Text(<<"http://d">>), Text(<<"D">>), None, Text(<<"soon">>)>> >>
FirefoxVisitRows ==
    {<<Small(1), FirefoxTimeA>>, <<Small(2), FirefoxTimeB>>, <<Small(3), FirefoxTimeA>>}
FileZip == Text(<<"file://", "/home/user/file.zip">>)
FirefoxLegacyRows ==
    {<<FileZip, FirefoxTimeA, Small(2048), UrlA>>,
     <<Text(<<"/home/user/b.zip">>), None, None, BadText>>}

\* A modern download: the place, the destinationFileURI annotation's content
\* and the metaData annotation's content.
ModernDownloads ==
    {<<1, FileZip, Text(<<"{\"fileSize\": 2048, \"startTime\": 1690000000000000}">>)>>,
     <<2, Blob(<<"file://", "/home/user/b.zip">>), Text(<<"[1]">>)>>,
     <<3, None, Text(<<"not json">>)>>,
     <<4, Text(<<"/home/user/d.zip">>), Text(<<"{}">>)>>,
     <<1, FileZip, BadText>>}

\* moz_annos has a unique index on (place_id, anno_attribute_id): one
\* download per place.
ModernSeqs ==
    {q \in SeqsUpTo(ModernDownloads, MaxRows) :
        \A i, j \in 1..Len(q) : q[i][1] = q[j][1] => i = j}

AnnoAttributes ==
    << <<Small(1), Text(<<DestinationAttr>>)>>, <<Small(2), Text(<<MetaDataAttr>>)>>,
       <<Small(3), Text(<<"bookmarkProperties/description">>)>> >>

\* The two annotation rows of each download, in the order of q.
AnnoRows(q) ==
    [k \in 1..(2 * Len(q)) |->
        IF k % 2 = 1 THEN <<Small(q[(k + 1) \div 2][1]), Small(1), q[(k + 1) \div 2][2]>>
        ELSE <<Small(q[k \div 2][1]), Small(2), q[k \div 2][3]>>]

FirefoxDb(h, l, m) ==
    [EmptyDb EXCEPT
        !.tables = PresentIf(h, {"moz_places", "moz_historyvisits"})
                   \cup PresentIf(l, {"moz_downloads"})
                   \cup PresentIf(m, {"moz_annos", "moz_anno_attributes"}),
        !.badcols = BadIf(h, {"moz_historyvisits"}) \cup BadIf(l, {"moz_downloads"})
                    \cup BadIf(m, {"moz_annos"}),
        !.moz_places = IF h.state = "absent" THEN <<>> ELSE FirefoxPlaces,
        !.moz_historyvisits = h.rows,
        !.moz_downloads = l.rows,
        !.moz_annos = AnnoRows(m.rows),
        !.moz_anno_attributes = IF m.state = "absent" THEN <<>> ELSE AnnoAttributes]

FirefoxDbs ==
    {FirefoxDb(h, l, m) : h \in TableStates(SeqsUpTo(FirefoxVisitRows, MaxRows)),
                          l \in TableStates(SeqsUpTo(FirefoxLegacyRows, MaxRows)),
                          m \in TableStates(ModernSeqs)}

-----------------------------------------------------------------------------
(* Unit calls: one function of the module called on one input *)

Procs == {1, 2}

IdleRuns ==
    /\ pc = [p \in Procs |-> "idle"]
    /\ db_path = [p \in Procs |-> ""]
    /\ output_csv = [p \in Procs |-> ""]
    /\ src = [p \in Procs |-> 0]
    /\ dst = [p \in Procs |-> 0]
    /\ conn = [p \in Procs |-> 0]
    /\ connState = [p \in Procs |-> "none"]
    /\ browser_type = [p \in Procs |-> None]
    /\ results = [p \in Procs |-> <<>>]
    /\ printed = [p \in Procs |-> <<>>]
    /\ raised = [p \in Procs |-> ""]

NoFiles ==
    /\ dir = [path \in {} |-> 0]
    /\ ino = <<>>
    /\ fs0 = [dir |-> dir, ino |-> ino]

InitUnit ==
    /\ \/ fn \in {"chrome_time_to_datetime", "firefox_time_to_datetime"} /\ arg \in TimeInputs
       \/ fn = "detect_browser" /\ arg \in SUBSET TableNames
       \/ fn = "parse_chromium" /\ arg \in ChromiumDbs
       \/ fn = "parse_firefox" /\ arg \in FirefoxDbs
    /\ ret = Pending
    /\ NoFiles
    /\ IdleRuns

CallChromeTime ==
    /\ fn = "chrome_time_to_datetime" /\ ~ret.done
    /\ ret' = Return(chrome_time_to_datetime(arg))
    /\ UNCHANGED <<fn, arg, fsVars, runVars>>

CallFirefoxTime ==
    /\ fn = "firefox_time_to_datetime" /\ ~ret.done
    /\ ret' = Return(firefox_time_to_datetime(arg))
    /\ UNCHANGED <<fn, arg, fsVars, runVars>>

CallDetectBrowser ==
    /\ fn = "detect_browser" /\ ~ret.done
    /\ ret' = Return(detect_browser(arg))
    /\ UNCHANGED <<fn, arg, fsVars, runVars>>

CallParseChromium ==
    /\ fn = "parse_chromium" /\ ~ret.done
    /\ \E f \in ChromiumOrders(arg) : ret' = Return(parse_chromium(arg, f))
    /\ UNCHANGED <<fn, arg, fsVars, runVars>>

CallParseFirefox ==
    /\ fn = "parse_firefox" /\ ~ret.done
    /\ \E f \in FirefoxOrders(arg) : ret' = Return(parse_firefox(arg, f))
    /\ UNCHANGED <<fn, arg, fsVars, runVars>>

NextUnit ==
    \/ CallChromeTime
    \/ CallFirefoxTime
    \/ CallDetectBrowser
    \/ CallParseChromium
    \/ CallParseFirefox

SpecUnit == InitUnit /\ [][NextUnit]_vars

-----------------------------------------------------------------------------
(* The file system: the working directory and the files' contents.         *)
(* A file's contents are <<"sqlite", db>>, <<"empty">> (no bytes: to       *)
(* SQLite a database without tables), <<"bytes">> (bytes that are no       *)
(* database) or <<"csv", header, rows>>. An inode lives on while a handle  *)
(* is open on it, also after its name is removed.                          *)

temp_db == "temp_history.db"
Paths == {"history.db", "places.sqlite", "missing.db", temp_db, "out.csv", "out2.csv"}

Empty == <<"empty">>
Bytes == <<"bytes">>
Sqlite(db) == <<"sqlite", db>>

ContentAt(d, i, path) == IF d[path] = 0 THEN <<"absent">> ELSE i[d[path]]

\* open(path, 'w'/'wb'): the file truncated, or created empty.
IsOpenedForWriting(path, fd) ==
    IF dir[path] = 0
    THEN /\ fd = Len(ino) + 1
         /\ dir' = [dir EXCEPT ![path] = fd]
         /\ ino' = Append(ino, Empty)
    ELSE /\ fd = dir[path]
         /\ dir' = dir
         /\ ino' = [ino EXCEPT ![fd] = Empty]

\* Whether SQLite reads the file as a database; if not, every statement
\* raises sqlite3.DatabaseError ("file is not a database").
IsDatabase(content) == Tag(content) \in {"sqlite", "empty"}
DbOf(content) == IF Tag(content) = "sqlite" THEN content[2] ELSE EmptyDb

\* str(v) for a CSV cell: csv writes None as the empty string.
CsvCell(v) == IF v = None THEN <<"cell", EmptyStr>> ELSE <<"cell", v>>

\* One row of DictWriter: the values in the header's order, restval "" for a
\* key the record lacks.
CsvRow(header, rec) ==
    [i \in 1..Len(header) |->
        IF HasKey(rec, header[i]) THEN CsvCell(Get(rec, header[i])) ELSE CsvCell(EmptyStr)]

\* DictWriter(extrasaction="raise"): a record with a key that is no
\* fieldname raises ValueError.
FitsHeader(header, rec) ==
    \A i \in 1..Len(rec) : \E j \in 1..Len(header) : header[j] = rec[i][1]

\* The first record that does not fit the header, Len + 1 if all do.
FirstMisfit(header, rs) ==
    IF \A k \in 1..Len(rs) : FitsHeader(header, rs[k]) THEN Len(rs) + 1
    ELSE CHOOSE k \in 1..Len(rs) :
            /\ ~FitsHeader(header, rs[k])
            /\ \A l \in 1..(k - 1) : FitsHeader(header, rs[l])

\* lines 216-219: the file's contents when the with block is left.
CsvFile(rs) ==
    LET header == Keys(rs[1])
        n == FirstMisfit(header, rs) - 1
    IN <<"csv", header, [k \in 1..n |-> CsvRow(header, rs[k])]>>

-----------------------------------------------------------------------------
(* export_history, lines 190-223, one action per statement that touches    *)
(* the file system or the database                                         *)

Say(p, msg) == printed' = [printed EXCEPT ![p] = Append(@, msg)]
Goto(p, label) == pc' = [pc EXCEPT ![p] = label]
Fail(p, exc) ==
    /\ pc' = [pc EXCEPT ![p] = "done"]
    /\ raised' = [raised EXCEPT ![p] = exc]

\* lines 191-193
CheckExists(p) ==
    /\ pc[p] = "start"
    /\ IF dir[db_path[p]] = 0
       THEN Say(p, "not_found") /\ Goto(p, "done")
       ELSE UNCHANGED printed /\ Goto(p, "open_src")
    /\ UNCHANGED <<unitVars, fsVars, db_path, output_csv, src, dst, conn, connState,
                   browser_type, results, raised>>

\* line 196, open(db_path, 'rb')
OpenSource(p) ==
    /\ pc[p] = "open_src"
    /\ IF dir[db_path[p]] = 0
       THEN Fail(p, "FileNotFoundError") /\ UNCHANGED src
       ELSE /\ src' = [src EXCEPT ![p] = dir[db_path[p]]]
            /\ Goto(p, "open_dst")
            /\ UNCHANGED raised
    /\ UNCHANGED <<unitVars, fsVars, db_path, output_csv, dst, conn, connState,
                   browser_type, results, printed>>

\* line 196, open(temp_db, 'wb')
OpenSnapshot(p) ==
    /\ pc[p] = "open_dst"
    /\ \E fd \in 1..(Len(ino) + 1) :
          /\ IsOpenedForWriting(temp_db, fd)
          /\ dst' = [dst EXCEPT ![p] = fd]
    /\ Goto(p, "copy")
    /\ UNCHANGED <<unitVars, fs0, db_path, output_csv, src, conn, connState,
                   browser_type, results, printed, raised>>

\* line 197, dst.write(src.read()), and both files closed
CopySnapshot(p) ==
    /\ pc[p] = "copy"
    /\ ino' = [ino EXCEPT ![dst[p]] = ino[src[p]]]
    /\ src' = [src EXCEPT ![p] = 0]
    /\ dst' = [dst EXCEPT ![p] = 0]
    /\ Goto(p, "connect")
    /\ UNCHANGED <<unitVars, dir, fs0, db_path, output_csv, conn, connState,
                   browser_type, results, printed, raised>>

\* lines 199-200: sqlite3.connect opens the file, creating it if it is gone
Connect(p) ==
    /\ pc[p] = "connect"
    /\ IF dir[temp_db] = 0
       THEN /\ dir' = [dir EXCEPT ![temp_db] = Len(ino) + 1]
            /\ ino' = Append(ino, Empty)
            /\ conn' = [conn EXCEPT ![p] = Len(ino) + 1]
       ELSE /\ conn' = [conn EXCEPT ![p] = dir[temp_db]]
            /\ UNCHANGED <<dir, ino>>
    /\ connState' = [connState EXCEPT ![p] = "open"]
    /\ Goto(p, "detect")
    /\ UNCHANGED <<unitVars, fs0, db_path, output_csv, src, dst, browser_type,
                   results, printed, raised>>

\* lines 202-204 and 209
Detect(p) ==
    /\ pc[p] = "detect"
    /\ LET db == DbOf(ino[conn[p]])
       IN IF ~IsDatabase(ino[conn[p]])
          THEN Fail(p, "DatabaseError") /\ UNCHANGED <<browser_type, printed>>
          ELSE /\ browser_type' = [browser_type EXCEPT ![p] = detect_browser(db.tables)]
               /\ IF Truthy(detect_browser(db.tables))
                  THEN Say(p, "detected") /\ Goto(p, "parse")
                  ELSE Say(p, "unknown") /\ Goto(p, "unknown_close")
               /\ UNCHANGED raised
    /\ UNCHANGED <<unitVars, fsVars, db_path, output_csv, src, dst, conn, connState,
                   results>>

\* lines 205 and 212, conn.close()
Close(p) ==
    /\ pc[p] \in {"unknown_close", "close"}
    /\ connState' = [connState EXCEPT ![p] = "closed"]
    /\ Goto(p, IF pc[p] = "close" THEN "remove" ELSE "unknown_remove")
    /\ UNCHANGED <<unitVars, fsVars, db_path, output_csv, src, dst, conn,
                   browser_type, results, printed, raised>>

\* lines 206-207 and 213, os.remove(temp_db)
Remove(p) ==
    /\ pc[p] \in {"unknown_remove", "remove"}
    /\ IF dir[temp_db] = 0
       THEN Fail(p, "FileNotFoundError") /\ UNCHANGED dir
       ELSE /\ dir' = [dir EXCEPT ![temp_db] = 0]
            /\ Goto(p, IF pc[p] = "remove" THEN "export" ELSE "done")
            /\ UNCHANGED raised
    /\ UNCHANGED <<unitVars, ino, fs0, db_path, output_csv, src, dst, conn, connState,
                   browser_type, results, printed>>

\* What the extractor of the detected layout makes of the file the
\* connection is on: on bytes that are no database every query raises
\* sqlite3.DatabaseError, which every pass catches.
Extracted(kind, content) ==
    LET db == DbOf(content)
    IN IF kind = Text(<<"chromium">>)
       THEN {parse_chromium(db, f) : f \in ChromiumOrders(db)}
       ELSE {parse_firefox(db, f) : f \in FirefoxOrders(db)}

\* line 210
Parse(p) ==
    /\ pc[p] = "parse"
    /\ \E r \in Extracted(browser_type[p], ino[conn[p]]) :
          IF r.raised # ""
          THEN Fail(p, r.raised) /\ UNCHANGED results
          ELSE /\ results' = [results EXCEPT ![p] = r.results]
               /\ Goto(p, "close")
               /\ UNCHANGED raised
    /\ UNCHANGED <<unitVars, fsVars, db_path, output_csv, src, dst, conn, connState,
                   browser_type, printed>>

\* lines 215-223
Export(p) ==
    /\ pc[p] = "export"
    /\ IF Len(results[p]) > 0
       THEN /\ \E fd \in 1..(Len(ino) + 1) :
                  /\ fd = IF dir[output_csv[p]] = 0 THEN Len(ino) + 1 ELSE dir[output_csv[p]]
                  /\ dir' = [dir EXCEPT ![output_csv[p]] = fd]
                  /\ ino' = IF dir[output_csv[p]] = 0
                            THEN Append(ino, CsvFile(results[p]))
                            ELSE [ino EXCEPT ![fd] = CsvFile(results[p])]
            /\ IF FirstMisfit(Keys(results[p][1]), results[p]) <= Len(results[p])
               THEN Fail(p, "ValueError") /\ UNCHANGED printed
               ELSE Say(p, "export_complete") /\ Goto(p, "done") /\ UNCHANGED raised
       ELSE /\ Say(p, "no_data") /\ Goto(p, "done")
            /\ UNCHANGED <<dir, ino, raised>>
    /\ UNCHANGED <<unitVars, fs0, db_path, output_csv, src, dst, conn, connState,
                   browser_type, results>>

Next ==
    \/ \E p \in Procs : CheckExists(p)
    \/ \E p \in Procs : OpenSource(p)
    \/ \E p \in Procs : OpenSnapshot(p)
    \/ \E p \in Procs : CopySnapshot(p)
    \/ \E p \in Procs : Connect(p)
    \/ \E p \in Procs : Detect(p)
    \/ \E p \in Procs : Parse(p)
    \/ \E p \in Procs : Close(p)
    \/ \E p \in Procs : Remove(p)
    \/ \E p \in Procs : Export(p)

-----------------------------------------------------------------------------
(* One run of the program: python BrowserForensics.py <db_path> [output_csv] *)

Visit1 == [state |-> "ok", rows |-> <<<<Small(1), ChromeTimeA>>>>]
NoRows == [state |-> "ok", rows |-> <<>>]
Absent == [state |-> "absent", rows |-> <<>>]
FfVisit1 == [state |-> "ok", rows |-> <<<<Small(1), FirefoxTimeA>>>>]
ModernOk ==
    [state |-> "ok",
     rows |-> <<<<1, FileZip, Text(<<"{\"fileSize\": 2048, \"startTime\": 1690000000000000}">>)>>>>]
ModernBlob ==
    [state |-> "ok", rows |-> <<<<2, Blob(<<"file://", "/home/user/b.zip">>), Text(<<"[1]">>)>>>>]

\* The files a run is pointed at.
Artifacts ==
    {Sqlite(ChromiumDb(Visit1, Absent)),
     Sqlite(ChromiumDb(NoRows, NoRows)),
     Sqlite(FirefoxDb(FfVisit1, Absent, ModernOk)),
     Sqlite(FirefoxDb(FfVisit1, Absent, ModernBlob)),
     Sqlite([EmptyDb EXCEPT !.tables = {"meta"}]),
     Sqlite([EmptyDb EXCEPT !.tables = {"urls", "moz_places"}]),
     Empty,
     Bytes}

StartRuns(active) ==
    /\ pc = [p \in Procs |-> IF p \in active THEN "start" ELSE "idle"]
    /\ src = [p \in Procs |-> 0]
    /\ dst = [p \in Procs |-> 0]
    /\ conn = [p \in Procs |-> 0]
    /\ connState = [p \in Procs |-> "none"]
    /\ browser_type = [p \in Procs |-> None]
    /\ results = [p \in Procs |-> <<>>]
    /\ printed = [p \in Procs |-> <<>>]
    /\ raised = [p \in Procs |-> ""]

NoUnitCall == fn = "" /\ arg = None /\ ret = Pending

\* The directory in which the paths of files hold the contents given by
\* files (a function from some paths to contents).
Holding(files) ==
    LET names == CHOOSE f \in Enumerations(DOMAIN files) : TRUE
    IN /\ dir = [path \in Paths |->
                    IF path \in DOMAIN files
                    THEN CHOOSE k \in 1..Len(names) : names[k] = path ELSE 0]
       /\ ino = [k \in 1..Len(names) |-> files[names[k]]]
       /\ fs0 = [dir |-> dir, ino |-> ino]

\* A single run. The artifact may be missing; the output file and a stale
\* temp_history.db may already exist; the paths given may coincide.
Init ==
    /\ NoUnitCall
    /\ StartRuns({1})
    /\ \E source \in {"history.db", "missing.db", temp_db},
          out \in {"out.csv", temp_db, "history.db"},
          a \in Artifacts,
          old \in SUBSET {"out.csv", temp_db} :
          /\ db_path = [p \in Procs |-> IF p = 1 THEN source ELSE ""]
          /\ output_csv = [p \in Procs |-> IF p = 1 THEN out ELSE ""]
          /\ Holding([path \in (old \cup (IF source = "missing.db" THEN {} ELSE {source})) |->
                        IF path = source THEN a ELSE Bytes])

Spec == Init /\ [][Next]_vars

\* Two runs started in the same working directory on different artifacts,
\* writing different output files.
InitConc ==
    /\ NoUnitCall
    /\ StartRuns(Procs)
    /\ db_path = [p \in Procs |-> IF p = 1 THEN "history.db" ELSE "places.sqlite"]
    /\ output_csv = [p \in Procs |-> IF p = 1 THEN "out.csv" ELSE "out2.csv"]
    /\ \E a \in {Sqlite(ChromiumDb(Visit1, Absent)), Sqlite(ChromiumDb(NoRows, NoRows))},
          b \in {Sqlite(FirefoxDb(FfVisit1, Absent, ModernOk)),
                 Sqlite([EmptyDb EXCEPT !.tables = {"meta"}])} :
          Holding([path \in {"history.db", "places.sqlite"} |->
                     IF path = "history.db" THEN a ELSE b])

SpecConc == InitConc /\ [][Next]_vars

-----------------------------------------------------------------------------
(* Properties *)

Returned_(name) == fn = name /\ ret.done
ParseReturned == (Returned_("parse_chromium") \/ Returned_("parse_firefox")) /\ ret.val.raised = ""

\* C1: detect_browser answers chromium when both urls and visits are among
\* the tables, whatever else is, else firefox when both moz_places and
\* moz_historyvisits are, else None.
C1_DetectRule ==
    Returned_("detect_browser") =>
        /\ ("urls" \in arg /\ "visits" \in arg) => ret.val = Text(<<"chromium">>)
        /\ (~("urls" \in arg /\ "visits" \in arg)
              /\ "moz_places" \in arg /\ "moz_historyvisits" \in arg)
             => ret.val = Text(<<"firefox">>)
        /\ (~("urls" \in arg /\ "visits" \in arg)
              /\ ~("moz_places" \in arg /\ "moz_historyvisits" \in arg))
             => ret.val = None

\* A table set with both layouts' tables and an unrelated one was classified.
C1_Witness ==
    /\ Returned_("detect_browser")
    /\ {"urls", "visits", "moz_places", "moz_historyvisits", "meta"} \subseteq arg
    /\ ret.val = Text(<<"chromium">>)

\* Whether some row the history join selects cannot be fetched.
HistoryRowFails(a, b) ==
    \E q \in JoinPairs(a, b) : ~RowDecodes(a[q[1]]) \/ ~RowDecodes(b[q[2]])
TableRowFails(rows) == \E k \in 1..Len(rows) : ~RowDecodes(rows[k])
ModernRowFails(db) ==
    \E t \in ModernTriples(db) :
        ~RowDecodes(<<db.moz_places[t[1]][2], db.moz_annos[t[2]][3], db.moz_annos[t[3]][3]>>)

CountOf(rs, type) == Cardinality({k \in 1..Len(rs) : TypeOf(rs[k]) = type})

\* C3: a recognized layout's extractor always returns: no row, whatever its
\* cells hold, makes it raise.
C3_ExtractorAlwaysReturns ==
    (Returned_("parse_chromium") \/ Returned_("parse_firefox")) => ret.val.raised = ""

\* C4: a pass whose query fails, when prepared or while its rows are read,
\* contributes no record, and a pass that does not fail contributes one
\* record per row of its query although another pass failed.
C4_FailedPassContributesNothing ==
    /\ (Returned_("parse_chromium") /\ ret.val.raised = "") =>
          LET histFails == \/ ~QueryPrepares(arg, {"urls", "visits"})
                           \/ HistoryRowFails(arg.urls, arg.visits)
              downFails == \/ ~QueryPrepares(arg, {"downloads"})
                           \/ TableRowFails(arg.downloads)
          IN /\ histFails => CountOf(ret.val.results, Visit) = 0
             /\ downFails => CountOf(ret.val.results, Download) = 0
             /\ ~histFails => CountOf(ret.val.results, Visit)
                                = Cardinality(JoinPairs(arg.urls, arg.visits))
             /\ ~downFails => CountOf(ret.val.results, Download) = Len(arg.downloads)
    /\ (Returned_("parse_firefox") /\ ret.val.raised = "") =>
          LET histFails == \/ ~QueryPrepares(arg, {"moz_places", "moz_historyvisits"})
                           \/ HistoryRowFails(arg.moz_places, arg.moz_historyvisits)
              legacyFails == \/ ~QueryPrepares(arg, {"moz_downloads"})
                             \/ TableRowFails(arg.moz_downloads)
              modernFails == \/ ~QueryPrepares(arg, {"moz_places", "moz_annos",
                                                     "moz_anno_attributes"})
                             \/ ModernRowFails(arg)
          IN /\ histFails => CountOf(ret.val.results, Visit) = 0
             /\ (legacyFails /\ modernFails) => CountOf(ret.val.results, Download) = 0
             /\ ~histFails => CountOf(ret.val.results, Visit)
                                = Cardinality(JoinPairs(arg.moz_places, arg.moz_historyvisits))
             /\ (legacyFails /\ ~modernFails) =>
                   CountOf(ret.val.results, Download) = Cardinality(ModernTriples(arg))
             /\ (~legacyFails /\ modernFails) =>
                   CountOf(ret.val.results, Download) = Len(arg.moz_downloads)

\* C6: every record an extractor returns has the nine fields, in the fixed
\* order, so the header taken from the first record fits them all.
C6_NineFields ==
    ParseReturned =>
        \A k \in 1..Len(ret.val.results) :
            /\ Keys(ret.val.results[k]) = FieldNames
            /\ FitsHeader(Keys(ret.val.results[1]), ret.val.results[k])

\* parse_firefox returned records of all three passes.
C6_Witness ==
    /\ Returned_("parse_firefox") /\ ret.val.raised = ""
    /\ CountOf(ret.val.results, Visit) >= 1
    /\ CountOf(ret.val.results, Download) >= 2
    /\ Len(arg.moz_downloads) = 1
    /\ Cardinality(ModernTriples(arg)) = 1

\* What strptime recovers from a formatted time: <<day number, second of day>>.
DaysFromCivil(y0, m, d) ==
    LET y == IF m <= 2 THEN y0 - 1 ELSE y0
        era == y \div 400
        yoe == y - era * 400
        doy == (153 * (IF m > 2 THEN m - 3 ELSE m + 9) + 2) \div 5 + d - 1
        doe == yoe * 365 + yoe \div 4 - yoe \div 100 + doy
    IN era * 146097 + doe - 719468
Instant(t) ==
    <<DaysFromCivil(t[4], t[2], t[3]),
      ((t[5] % 12) + (IF t[8] = "PM" THEN 12 ELSE 0)) * 3600 + t[6] * 60 + t[7]>>
NotBefore(t1, t2) ==
    LET a == Instant(t1)
        b == Instant(t2)
    IN a[1] > b[1] \/ (a[1] = b[1] /\ a[2] >= b[2])

\* The Download records of rs, in their order.
DownloadsOf(rs) == SelectSeq(rs, LAMBDA r : TypeOf(r) = Download)

\* C8: parse_firefox returns the Visit records first, latest visit first,
\* then one Download per moz_downloads row with the row's own target and
\* source, then the annotation-based Downloads with file:// stripped; no
\* record is dropped for appearing in both layouts, and no Firefox Download
\* has a Referrer.
C8_FirefoxOrder ==
    (Returned_("parse_firefox") /\ ret.val.raised = "") =>
        LET rs == ret.val.results
            ds == DownloadsOf(rs)
            legacyOk == QueryPrepares(arg, {"moz_downloads"}) /\ ~TableRowFails(arg.moz_downloads)
            modernOk == /\ QueryPrepares(arg, {"moz_places", "moz_annos", "moz_anno_attributes"})
                        /\ ~ModernRowFails(arg)
            nL == IF legacyOk THEN Len(arg.moz_downloads) ELSE 0
        IN /\ \A i, j \in 1..Len(rs) :
                 (i < j /\ TypeOf(rs[j]) = Visit) =>
                    /\ TypeOf(rs[i]) = Visit
                    /\ (Tag(Get(rs[i], "Visit Time (UTC)")) = "fmt"
                          /\ Tag(Get(rs[j], "Visit Time (UTC)")) = "fmt")
                       => NotBefore(Get(rs[i], "Visit Time (UTC)"), Get(rs[j], "Visit Time (UTC)"))
           /\ \A k \in 1..Len(rs) : TypeOf(rs[k]) \in {Visit, Download}
           /\ \A k \in 1..Len(ds) : Get(ds[k], "Referrer") = EmptyStr
           /\ Len(ds) >= nL
           /\ \A k \in 1..nL :
                 /\ Get(ds[k], "URL") = arg.moz_downloads[k][4]
                 /\ Get(ds[k], "Download Path") = arg.moz_downloads[k][1]
           /\ \A k \in (nL + 1)..Len(ds) :
                 /\ \E t \in ModernTriples(arg) : Get(ds[k], "URL") = arg.moz_places[t[1]][2]
                 /\ \A i \in 1..Len(Get(ds[k], "Download Path")[2]) :
                       Get(ds[k], "Download Path")[2][i] # "file://"
           /\ modernOk => Len(ds) = nL + Cardinality(ModernTriples(arg))

\* Two visits at different times, and the same download (same source URL,
\* same file) returned once from moz_downloads and once from the annotations.
C8_Witness ==
    /\ Returned_("parse_firefox") /\ ret.val.raised = ""
    /\ LET rs == ret.val.results
           ds == DownloadsOf(rs)
       IN /\ Len(rs) = 4 /\ Len(ds) = 2
          /\ Get(rs[1], "Visit Time (UTC)") = <<"fmt", 7, 23, 2023, 4, 26, 40, "AM">>
          /\ Get(rs[2], "Visit Time (UTC)") = <<"fmt", 7, 22, 2023, 4, 26, 40, "AM">>
          /\ Get(ds[1], "URL") = UrlA /\ Get(ds[2], "URL") = UrlA
          /\ Get(ds[1], "Download Path") = FileZip
          /\ Get(ds[2], "Download Path") = Text(<<"/home/user/file.zip">>)
          /\ Get(ds[2], "Download Size (bytes)") = Small(2048)

TimestampFields == {"Last Visit (UTC)", "Visit Time (UTC)"}

\* C9: both conversions return a formatted string or None for every input,
\* None for every falsy input, and never raise; no timestamp field of a
\* returned record holds anything but a formatted string, None or "".
C9_ConversionTotal ==
    /\ (Returned_("chrome_time_to_datetime") \/ Returned_("firefox_time_to_datetime")) =>
          /\ ret.val # Raise
          /\ Tag(ret.val) \in {"fmt", "none"}
          /\ ~Truthy(arg) => ret.val = None
    /\ ParseReturned =>
          \A k \in 1..Len(ret.val.results) : \A name \in TimestampFields :
              LET v == Get(ret.val.results[k], name)
              IN Tag(v) = "fmt" \/ v = None \/ v = EmptyStr

\* A text was given to the Chromium conversion, which returned None.
C9_Witness ==
    /\ Returned_("chrome_time_to_datetime")
    /\ arg = Text(<<"soon">>)
    /\ ret.val = None

\* C2: a run that ended after it opened its connection has closed it, and
\* the file the connection was on (the snapshot copy) has no name left.
C2_ReleasedOnEveryExit ==
    \A p \in Procs :
        (pc[p] = "done" /\ connState[p] # "none") =>
            /\ connState[p] = "closed"
            /\ \A path \in Paths : dir[path] # conn[p]

\* C5: a run that ended on "not found" or "unknown" ran no extractor and left
\* the file at its output path as it was.
C5_FatalLeavesOutputAlone ==
    \A p \in Procs :
        (pc[p] = "done" /\ Len(printed[p]) > 0
           /\ printed[p][Len(printed[p])] \in {"not_found", "unknown"}) =>
            /\ results[p] = <<>>
            /\ ContentAt(dir, ino, output_csv[p]) = ContentAt(fs0.dir, fs0.ino, output_csv[p])

\* C7: no run raises, and a connection is only ever on a file holding its
\* own run's artifact.
C7_RunsIndependent ==
    \A p \in Procs :
        /\ raised[p] = ""
        /\ connState[p] = "open" => ino[conn[p]] = ContentAt(fs0.dir, fs0.ino, db_path[p])

\* C10: the file at a run's source path holds at every moment what it held
\* before the run.
C10_SourceUntouched ==
    \A p \in Procs :
        pc[p] # "idle" =>
            ContentAt(dir, ino, db_path[p]) = ContentAt(fs0.dir, fs0.ino, db_path[p])

=============================================================================
